---- MODULE Spec2Model ----
(***************************************************************************)
(* A model of karafun_unlocker/main.py: the KFN container codec            *)
(* (read_kfn / write_kfn), the unlock transform (unlock_kfn) and the       *)
(* unlock_file handler of the window.                                      *)
(*                                                                         *)
(* Byte strings are sequences of integers 0..255.  Python dicts are        *)
(* sequences of entries with pairwise distinct keys, in insertion order.   *)
(***************************************************************************)
EXTENDS Integers, Sequences, FiniteSets, TLC

VARIABLES
    kfn,           \* the KFNFile object the codec operations work on
    stream,        \* the bytes of the binary stream last written
    last,          \* the last codec operation, its outcome and the object before it
    fs,            \* the file system: path -> bytes, or NoFile
    input_entry,   \* text of the input Entry widget (a path, or NoPath)
    output_entry,  \* text of the output Entry widget (a path, or NoPath)
    status_label,  \* text of the status Label
    run            \* the last pass through the try block of unlock_file: its paths,
                   \* the file system it began with and its operations in order

vars == <<kfn, stream, last, fs, input_entry, output_entry, status_label, run>>

codecVars == <<kfn, stream, last>>
appVars == <<fs, input_entry, output_entry, status_label, run>>

----------------------------------------------------------------------------
(* Bounds of the model *)

MaxSubfiles == 2

MaxUnlocked == 2

----------------------------------------------------------------------------
(* Bytes *)

Ord ==
    "LF" :> 10 @@ "CR" :> 13 @@ "TAB" :> 9 @@
    " " :> 32 @@ "#" :> 35 @@ "-" :> 45 @@ "." :> 46 @@ "0" :> 48 @@
    "1" :> 49 @@ "2" :> 50 @@ "3" :> 51 @@ "5" :> 53 @@ "7" :> 55 @@ "9" :> 57 @@
    ":" :> 58 @@ ";" :> 59 @@ "=" :> 61 @@
    "A" :> 65 @@ "B" :> 66 @@ "D" :> 68 @@ "E" :> 69 @@ "F" :> 70 @@ "G" :> 71 @@
    "H" :> 72 @@ "I" :> 73 @@ "K" :> 75 @@ "L" :> 76 @@ "N" :> 78 @@ "R" :> 82 @@
    "S" :> 83 @@ "T" :> 84 @@ "U" :> 85 @@ "V" :> 86 @@ "X" :> 88 @@ "Y" :> 89 @@
    "[" :> 91 @@ "]" :> 93 @@
    "a" :> 97 @@ "b" :> 98 @@ "c" :> 99 @@ "d" :> 100 @@ "e" :> 101 @@ "f" :> 102 @@
    "g" :> 103 @@ "i" :> 105 @@ "l" :> 108 @@ "m" :> 109 @@ "n" :> 110 @@
    "o" :> 111 @@ "p" :> 112 @@ "r" :> 114 @@ "s" :> 115 @@ "t" :> 116 @@
    "u" :> 117 @@ "x" :> 120

\* the byte string spelled by a tuple of characters
B(t) == [i \in 1..Len(t) |-> Ord[t[i]]]

Min(a, b) == IF a < b THEN a ELSE b

\* Python's s[a:b] on a byte string, 0-based, clipped to the string
Slice(s, a, b) == SubSeq(s, Min(a, Len(s)) + 1, Min(b, Len(s)))

RECURSIVE Concat(_)
\* b"".join(parts)
Concat(parts) == IF parts = <<>> THEN <<>> ELSE Head(parts) \o Concat(Tail(parts))

Zeros(n) == [i \in 1..n |-> 0]

----------------------------------------------------------------------------
(* KFNSubfileType, KFNSubfile, KFNFile *)

KFNSubfileType ==
    "SONG" :> 1 @@ "AUDIO" :> 2 @@ "IMAGE" :> 3 @@ "FONT" :> 4 @@
    "VIDEO" :> 5 @@ "MILKDROP" :> 6 @@ "CDG" :> 7

\* KFNSubfileType(value): the member with that value, or a ValueError
IsSubfileTypeValue(v) == \E t \in DOMAIN KFNSubfileType : KFNSubfileType[t] = v

SubfileTypeOf(v) == CHOOSE t \in DOMAIN KFNSubfileType : KFNSubfileType[t] = v

KFNSubfile(name, ftype, data, length, is_encrypted) ==
    [name |-> name, ftype |-> ftype, data |-> data, length |-> length,
     is_encrypted |-> is_encrypted]

\* a header value is an int or a bytes object; kind says which field holds it
IntValue(n) == [kind |-> "int", ival |-> n, bval |-> <<>>]

BytesValue(b) == [kind |-> "bytes", ival |-> 0, bval |-> b]

HeaderEntry(tag, value) == [tag |-> tag, value |-> value]

KFNFile(headers, subfiles) == [headers |-> headers, subfiles |-> subfiles]

\* key in dict
DictHas(d, key) == \E i \in 1..Len(d) : d[i].tag = key

\* dict[key], for a key of the dict
DictGet(d, key) == d[CHOOSE i \in 1..Len(d) : d[i].tag = key].value

\* dict[key] = value: an existing key keeps its position, a new key goes last
DictSet(d, key, value) ==
    IF DictHas(d, key)
    THEN [i \in 1..Len(d) |-> IF d[i].tag = key THEN HeaderEntry(key, value) ELSE d[i]]
    ELSE Append(d, HeaderEntry(key, value))

----------------------------------------------------------------------------
(* write_kfn *)

\* word.to_bytes(4, byteorder="little"); every word of the model is below 2^32
write_word_le(word) ==
    << word % 256, (word \div 256) % 256, (word \div 65536) % 256,
       (word \div 16777216) % 256 >>

WriteHeader(e) ==
    IF e.value.kind = "int"
    THEN e.tag \o <<1>> \o write_word_le(e.value.ival)
    ELSE e.tag \o <<2>> \o write_word_le(Len(e.value.bval)) \o e.value.bval

EndhHeader == B(<<"E", "N", "D", "H">>) \o <<1, 255, 255, 255, 255>>

\* (mutant of NextOffset) the offset advances by the declared plaintext length
NextOffsetDeclared(offset, subfile) == offset + subfile.length

\* offset += len(subfile.data)
NextOffset(offset, subfile) == offset + Len(subfile.data)

WriteIndexEntry(subfile, offset) ==
    write_word_le(Len(subfile.name)) \o subfile.name
        \o write_word_le(KFNSubfileType[subfile.ftype])
        \o write_word_le(subfile.length)
        \o write_word_le(offset)
        \o write_word_le(Len(subfile.data))
        \o write_word_le(IF subfile.is_encrypted THEN 1 ELSE 0)

RECURSIVE WriteIndex(_, _)
WriteIndex(subfiles, offset) ==
    IF subfiles = <<>> THEN <<>>
    ELSE WriteIndexEntry(Head(subfiles), offset)
            \o WriteIndex(Tail(subfiles), NextOffset(offset, Head(subfiles)))

write_kfn(k) ==
    B(<<"K", "F", "N", "B">>)
        \o Concat([i \in 1..Len(k.headers) |-> WriteHeader(k.headers[i])])
        \o EndhHeader
        \o write_word_le(Len(k.subfiles))
        \o WriteIndex(k.subfiles, 0)
        \o Concat([i \in 1..Len(k.subfiles) |-> k.subfiles[i].data])

----------------------------------------------------------------------------
(* read_kfn *)

\* struct.unpack("I", stream.read(4)) at position pos; needs 4 bytes
CanUnpack(s, pos, n) == pos + n <= Len(s)

UnpackWord(s, pos) ==
    s[pos + 1] + 256 * s[pos + 2] + 65536 * s[pos + 3] + 16777216 * s[pos + 4]

\* stream.read(n) at position pos: short at the end of the stream, never an error
StreamRead(s, pos, n) == Slice(s, pos, pos + n)

Fail(err) == [ok |-> FALSE, err |-> err]

\* header.decode(): the tags of the model are ASCII except those holding byte 255,
\* which no UTF-8 text contains
Utf8Decodable(tag) == \A i \in 1..Len(tag) : tag[i] < 128

RECURSIVE ReadHeaders(_, _, _)
\* the "while True" loop of read_kfn, from stream position pos
ReadHeaders(s, pos, headers) ==
    IF ~CanUnpack(s, pos, 5) THEN Fail("struct.error")
    ELSE LET header == SubSeq(s, pos + 1, pos + 4)
             flag == s[pos + 5]
         IN  IF ~Utf8Decodable(header) THEN Fail("UnicodeDecodeError")
             ELSE IF flag \notin {1, 2} THEN Fail("ValueError: unexpected flag")
             ELSE IF ~CanUnpack(s, pos + 5, 4) THEN Fail("struct.error")
             ELSE LET word == UnpackWord(s, pos + 5)
                      data == IF flag = 1 THEN IntValue(word)
                              ELSE BytesValue(StreamRead(s, pos + 9, word))
                      next == IF flag = 1 THEN pos + 9
                              ELSE Min(pos + 9 + word, Len(s))
                  IN  IF header = B(<<"E", "N", "D", "H">>)
                      THEN [ok |-> TRUE, err |-> "", headers |-> headers, pos |-> next]
                      ELSE ReadHeaders(s, next, DictSet(headers, header, data))

\* subfile_info[subfile_name] = subfile_metadata
InfoSet(info, name, metadata) ==
    IF \E i \in 1..Len(info) : info[i].name = name
    THEN [i \in 1..Len(info) |->
            IF info[i].name = name THEN [name |-> name, metadata |-> metadata]
            ELSE info[i]]
    ELSE Append(info, [name |-> name, metadata |-> metadata])

RECURSIVE ReadIndex(_, _, _, _)
\* the "for _ in range(subfile_count)" loop of read_kfn
ReadIndex(s, pos, remaining, info) ==
    IF remaining = 0 THEN [ok |-> TRUE, err |-> "", info |-> info, pos |-> pos]
    ELSE IF ~CanUnpack(s, pos, 4) THEN Fail("struct.error")
    ELSE LET subfile_name_length == UnpackWord(s, pos)
             subfile_name == StreamRead(s, pos + 4, subfile_name_length)
             at == Min(pos + 4 + subfile_name_length, Len(s))
         IN  IF ~CanUnpack(s, at, 20) THEN Fail("struct.error")
             ELSE LET subfile_metadata == [j \in 1..5 |-> UnpackWord(s, at + 4 * (j - 1))]
                  IN  ReadIndex(s, at + 20, remaining - 1,
                                InfoSet(info, subfile_name, subfile_metadata))

\* one pass of the "for name, metadata in subfile_info.items()" loop
ReadSubfile(s, subfiles_start, entry) ==
    LET m == entry.metadata
    IN  KFNSubfile(entry.name, SubfileTypeOf(m[1]),
                   StreamRead(s, subfiles_start + m[3], m[4]), m[2], m[5] # 0)

read_kfn(s) ==
    IF ~CanUnpack(s, 0, 4) THEN Fail("struct.error")
    ELSE IF SubSeq(s, 1, 4) # B(<<"K", "F", "N", "B">>)
    THEN Fail("ValueError: unexpected file signature")
    ELSE LET h == ReadHeaders(s, 4, <<>>)
         IN  IF ~h.ok THEN Fail(h.err)
             ELSE IF ~CanUnpack(s, h.pos, 4) THEN Fail("struct.error")
             ELSE LET x == ReadIndex(s, h.pos + 4, UnpackWord(s, h.pos), <<>>)
                  IN  IF ~x.ok THEN Fail(x.err)
                      ELSE IF \E i \in 1..Len(x.info) :
                                 ~IsSubfileTypeValue(x.info[i].metadata[1])
                      THEN Fail("ValueError: not a valid KFNSubfileType")
                      ELSE [ok |-> TRUE, err |-> "",
                            kfn |-> KFNFile(h.headers,
                                       [i \in 1..Len(x.info) |->
                                          ReadSubfile(s, x.pos, x.info[i])])]

----------------------------------------------------------------------------
(* The cipher: Cipher(algorithms.AES128(key), modes.ECB()).decryptor()       *)
(* AES itself is abstracted as a key-dependent permutation of 16-byte blocks; *)
(* the block size, the independence of blocks and the buffering of update()   *)
(* are those of the library.                                                  *)

BlockSize == 16

DecryptBlock(key, blk) ==
    [i \in 1..BlockSize |->
        (blk[BlockSize + 1 - i] + 256 - ((key[i] + i) % 256)) % 256]

\* the inverse permutation, used to build ciphertexts
EncryptBlock(key, blk) ==
    [j \in 1..BlockSize |->
        (blk[BlockSize + 1 - j] + key[BlockSize + 1 - j] + (BlockSize + 1 - j)) % 256]

RECURSIVE DecryptBlocks(_, _)
DecryptBlocks(key, data) ==
    IF Len(data) < BlockSize THEN <<>>
    ELSE DecryptBlock(key, SubSeq(data, 1, BlockSize))
            \o DecryptBlocks(key, SubSeq(data, BlockSize + 1, Len(data)))

RECURSIVE EncryptBlocks(_, _)
EncryptBlocks(key, data) ==
    IF Len(data) < BlockSize THEN <<>>
    ELSE EncryptBlock(key, SubSeq(data, 1, BlockSize))
            \o EncryptBlocks(key, SubSeq(data, BlockSize + 1, Len(data)))

\* decryptor.update(data): the decryptor holds the bytes of an incomplete block
\* (buf) and returns the decryption of the complete blocks of buf + data
UpdateOutput(key, buf, data) ==
    LET all == buf \o data
    IN  DecryptBlocks(key, SubSeq(all, 1, (Len(all) \div BlockSize) * BlockSize))

UpdateBuffer(buf, data) ==
    LET all == buf \o data
    IN  SubSeq(all, (Len(all) \div BlockSize) * BlockSize + 1, Len(all))

\* subfile.data = decryptor.update(subfile.data)[:subfile.length]
\* subfile.is_encrypted = False
DecryptSubfile(key, buf, subfile) ==
    [subfile EXCEPT !.data = Slice(UpdateOutput(key, buf, subfile.data), 0, subfile.length),
                    !.is_encrypted = FALSE]

RECURSIVE DecryptSubfiles(_, _, _)
\* the "for subfile in kfn.subfiles" loop of step 1, one decryptor for all
DecryptSubfiles(key, buf, subfiles) ==
    IF subfiles = <<>> THEN <<>>
    ELSE LET sf == Head(subfiles)
         IN  IF ~sf.is_encrypted
             THEN <<sf>> \o DecryptSubfiles(key, buf, Tail(subfiles))
             ELSE <<DecryptSubfile(key, buf, sf)>>
                    \o DecryptSubfiles(key, UpdateBuffer(buf, sf.data), Tail(subfiles))

----------------------------------------------------------------------------
(* Text: subfile.data.decode("cp1252") and the str methods the config parser  *)
(* uses.  A character is modelled by its cp1252 byte.                         *)

\* the bytes cp1252 leaves undefined: decoding them raises UnicodeDecodeError
Cp1252Undefined == {129, 141, 143, 144, 157}

Cp1252Decodable(data) == \A i \in 1..Len(data) : data[i] \notin Cp1252Undefined

\* str.isspace() of one character
IsSpace(c) == c \in (9..13) \cup (28..32) \cup {160}

\* str.lower() of one character
LowerChar(c) ==
    IF c \in 65..90 \/ (c \in 192..222 /\ c # 215) THEN c + 32
    ELSE IF c \in {138, 140, 142} THEN c + 16
    ELSE IF c = 159 THEN 255
    ELSE c

Lower(s) == [i \in 1..Len(s) |-> LowerChar(s[i])]

\* s.startswith(prefix)
StartsWith(s, prefix) == Len(s) >= Len(prefix) /\ SubSeq(s, 1, Len(prefix)) = prefix

\* number of leading whitespace characters
LeadingSpaces(s) ==
    IF \A i \in 1..Len(s) : IsSpace(s[i]) THEN Len(s)
    ELSE (CHOOSE i \in 1..Len(s) :
            ~IsSpace(s[i]) /\ \A j \in 1..(i - 1) : IsSpace(s[j])) - 1

\* number of trailing whitespace characters
TrailingSpaces(s) ==
    IF \A i \in 1..Len(s) : IsSpace(s[i]) THEN Len(s)
    ELSE Len(s) - (CHOOSE i \in 1..Len(s) :
            ~IsSpace(s[i]) /\ \A j \in (i + 1)..Len(s) : IsSpace(s[j]))

RStrip(s) == SubSeq(s, 1, Len(s) - TrailingSpaces(s))

LStrip(s) == SubSeq(s, LeadingSpaces(s) + 1, Len(s))

Strip(s) == LStrip(RStrip(s))

\* s.find(c) for c in a set of characters: 1-based index of the first, 0 if none
FindFirst(s, cs) ==
    IF \A i \in 1..Len(s) : s[i] \notin cs THEN 0
    ELSE CHOOSE i \in 1..Len(s) : s[i] \in cs /\ \A j \in 1..(i - 1) : s[j] \notin cs

\* s.rfind(c): 1-based index of the last, 0 if none
FindLast(s, c) ==
    IF \A i \in 1..Len(s) : s[i] # c THEN 0
    ELSE CHOOSE i \in 1..Len(s) : s[i] = c /\ \A j \in (i + 1)..Len(s) : s[j] # c

RECURSIVE SplitLines(_)
\* the lines a StringIO yields: each ends at a line feed, the last at the end
SplitLines(text) ==
    IF text = <<>> THEN <<>>
    ELSE LET nl == FindFirst(text, {10})
         IN  IF nl = 0 THEN <<text>>
             ELSE <<SubSeq(text, 1, nl)>> \o SplitLines(SubSeq(text, nl + 1, Len(text)))

RECURSIVE Join(_, _)
\* sep.join(parts)
Join(sep, parts) ==
    IF parts = <<>> THEN <<>>
    ELSE IF Len(parts) = 1 THEN parts[1]
    ELSE parts[1] \o sep \o Join(sep, Tail(parts))

RECURSIVE Replace(_, _, _)
\* s.replace(c, t) for a character c
Replace(s, c, t) ==
    IF s = <<>> THEN <<>>
    ELSE (IF s[1] = c THEN t ELSE <<s[1]>>) \o Replace(Tail(s), c, t)

IsDigit(c) == c \in 48..57

\* int(s) accepts s (already stripped): an optional sign, then digits with single
\* underscores between them
IsIntLiteral(s) ==
    LET body == IF s # <<>> /\ s[1] \in {43, 45} THEN Tail(s) ELSE s
    IN  /\ body # <<>>
        /\ \A i \in 1..Len(body) : IsDigit(body[i]) \/ body[i] = 95
        /\ IsDigit(body[1]) /\ IsDigit(body[Len(body)])
        /\ \A i \in 1..(Len(body) - 1) : ~(body[i] = 95 /\ body[i + 1] = 95)

RECURSIVE DigitsValue(_, _)
DigitsValue(s, acc) ==
    IF s = <<>> THEN acc
    ELSE IF s[1] = 95 THEN DigitsValue(Tail(s), acc)
    ELSE DigitsValue(Tail(s), 10 * acc + (s[1] - 48))

IntOf(s) ==
    IF s[1] = 45 THEN 0 - DigitsValue(Tail(s), 0)
    ELSE IF s[1] = 43 THEN DigitsValue(Tail(s), 0)
    ELSE DigitsValue(s, 0)

----------------------------------------------------------------------------
(* ConfigParser(): read_string, sections, getint, del config[section], write  *)
(* A parsed document is [sections, defaults]; a section is [name, opts]; an    *)
(* option is [key, vals] while reading (the lines of its value) and            *)
(* [key, value] once the lines are joined.                                     *)

DefaultSection == B(<<"D", "E", "F", "A", "U", "L", "T">>)

\* the reader's state before the first line
ReaderInit ==
    [sections |-> <<>>, defaults |-> <<>>,
     cursect |-> 0,          \* 0: None, -1: the defaults, k > 0: sections[k]
     sectname |-> <<>>,
     optname |-> <<>>,       \* <<>>: None or ""
     indent_level |-> 0,
     added |-> {},           \* the (sectname, optname) pairs of elements_added
     e |-> FALSE,            \* a ParsingError is pending
     raised |-> ""]          \* the exception that ended the read, if any

\* cursect[optname].append(value)
AppendToOption(opts, optname, value) ==
    [i \in 1..Len(opts) |->
        IF opts[i].key = optname THEN [opts[i] EXCEPT !.vals = Append(@, value)]
        ELSE opts[i]]

\* the options of cursect, and cursect with other options
CursectOpts(st) ==
    IF st.cursect = -1 THEN st.defaults ELSE st.sections[st.cursect].opts

SetCursect(st, opts) ==
    IF st.cursect = -1 THEN [st EXCEPT !.defaults = opts]
    ELSE [st EXCEPT !.sections[st.cursect].opts = opts]

\* SECTCRE.match(value): "[" header "]" with a non-empty, greedy header
IsSectionLine(value) == value[1] = 91 /\ FindLast(value, 93) >= 3

SectionHeader(value) == SubSeq(value, 2, FindLast(value, 93) - 1)

\* the section-header branch of _read
ReadSection(st, value) ==
    LET name == SectionHeader(value)
    IN  IF \E k \in 1..Len(st.sections) : st.sections[k].name = name
        THEN [st EXCEPT !.raised = "DuplicateSectionError"]
        ELSE IF name = DefaultSection
        THEN [st EXCEPT !.cursect = -1, !.sectname = name, !.optname = <<>>]
        ELSE [st EXCEPT !.sections = Append(@, [name |-> name, opts |-> <<>>]),
                        !.cursect = Len(st.sections) + 1,
                        !.sectname = name, !.optname = <<>>]

\* cursect[optname] = [optval]
PutOption(opts, optname, optval) ==
    IF \E i \in 1..Len(opts) : opts[i].key = optname
    THEN [i \in 1..Len(opts) |->
            IF opts[i].key = optname THEN [key |-> optname, vals |-> <<optval>>]
            ELSE opts[i]]
    ELSE Append(opts, [key |-> optname, vals |-> <<optval>>])

\* the option branch of _read once _optcre has matched: an empty option name is
\* a parsing error, a repeated one a DuplicateOptionError
StoreOption(st, optname, optval) ==
    IF <<st.sectname, optname>> \in st.added
    THEN [st EXCEPT !.raised = "DuplicateOptionError"]
    ELSE [SetCursect(st, PutOption(CursectOpts(st), optname, optval)) EXCEPT
            !.e = @ \/ optname = <<>>,
            !.optname = optname,
            !.added = @ \cup {<<st.sectname, optname>>}]

\* _optcre splits value at its first "=" or ":" (d, 0 if there is none)
SplitOption(st, value, d) ==
    IF d = 0 THEN [st EXCEPT !.e = TRUE]
    ELSE StoreOption(st, Lower(RStrip(SubSeq(value, 1, d - 1))),
                     Strip(SubSeq(value, d + 1, Len(value))))

ReadOption(st, value) == SplitOption(st, value, FindFirst(value, {61, 58}))

\* a line that is neither blank nor a comment
ReadValue(st, value, cur_indent_level) ==
    IF st.cursect # 0 /\ st.optname # <<>> /\ cur_indent_level > st.indent_level
    THEN SetCursect(st, AppendToOption(CursectOpts(st), st.optname, value))
    ELSE IF IsSectionLine(value)
    THEN ReadSection([st EXCEPT !.indent_level = cur_indent_level], value)
    ELSE IF st.cursect = 0
    THEN [st EXCEPT !.raised = "MissingSectionHeaderError"]
    ELSE ReadOption([st EXCEPT !.indent_level = cur_indent_level], value)

\* a blank line (part of the value of the current option) or a comment
ReadEmpty(st, is_comment) ==
    IF ~is_comment /\ st.cursect # 0 /\ st.optname # <<>>
    THEN SetCursect(st, AppendToOption(CursectOpts(st), st.optname, <<>>))
    ELSE st

\* line.strip().startswith(prefix) for the comment prefixes "#" and ";"
IsComment(stripped) == stripped # <<>> /\ stripped[1] \in {35, 59}

ReadStripped(st, line, stripped) ==
    IF stripped = <<>> \/ IsComment(stripped)
    THEN ReadEmpty(st, IsComment(stripped))
    ELSE ReadValue(st, stripped, LeadingSpaces(line))

\* one pass of the "for lineno, line in enumerate(fp)" loop of _read
ReadLine(st, line) == ReadStripped(st, line, Strip(line))

RECURSIVE ReadLines(_, _)
ReadLines(st, lines) ==
    IF lines = <<>> \/ st.raised # "" THEN st
    ELSE ReadLines(ReadLine(st, Head(lines)), Tail(lines))

\* _join_multiline_values: "\n".join(val).rstrip()
JoinValues(opts) ==
    [i \in 1..Len(opts) |->
        [key |-> opts[i].key, value |-> RStrip(Join(<<10>>, opts[i].vals))]]

\* the end of _read: the values are joined, a pending ParsingError is raised
ReadResult(st) ==
    IF st.raised # "" THEN Fail(st.raised)
    ELSE IF st.e THEN Fail("ParsingError")
    ELSE [ok |-> TRUE, err |-> "",
          config |-> [sections |-> [k \in 1..Len(st.sections) |->
                                      [name |-> st.sections[k].name,
                                       opts |-> JoinValues(st.sections[k].opts)]],
                      defaults |-> JoinValues(st.defaults)]]

\* config.read_string(text)
read_string(text) == ReadResult(ReadLines(ReaderInit, SplitLines(text)))

\* the options config.get sees in a section: its own, then the defaults
HasOption(opts, key) == \E i \in 1..Len(opts) : opts[i].key = key

OptionValue(opts, key) == opts[CHOOSE i \in 1..Len(opts) : opts[i].key = key].value

HasId(config, section) ==
    HasOption(section.opts, B(<<"i", "d">>)) \/ HasOption(config.defaults, B(<<"i", "d">>))

\* the string config.get(section, "id") returns; the values of the model hold no "%"
IdText(config, section) ==
    IF HasOption(section.opts, B(<<"i", "d">>))
    THEN OptionValue(section.opts, B(<<"i", "d">>))
    ELSE OptionValue(config.defaults, B(<<"i", "d">>))

\* (mutant of WriteSection) the lines of a multi-line value are not indented
WriteSectionFlat(name, opts) ==
    <<91>> \o name \o <<93, 10>>
        \o Concat([i \in 1..Len(opts) |->
                     opts[i].key \o B(<<" ", "=", " ">>) \o opts[i].value \o <<10>>])
        \o <<10>>

\* config.write(fp) with the default " = " delimiter
WriteSection(name, opts) ==
    <<91>> \o name \o <<93, 10>>
        \o Concat([i \in 1..Len(opts) |->
                     opts[i].key \o B(<<" ", "=", " ">>)
                        \o Replace(opts[i].value, 10, <<10, 9>>) \o <<10>>])
        \o <<10>>

config_write(config) ==
    (IF config.defaults # <<>> THEN WriteSection(DefaultSection, config.defaults)
     ELSE <<>>)
        \o Concat([k \in 1..Len(config.sections) |->
                     WriteSection(config.sections[k].name, config.sections[k].opts)])

----------------------------------------------------------------------------
(* unlock_kfn *)

VALID_EFFECT_IDS == {1, 2, 21, 51, 53, 61, 62}

FLID == B(<<"F", "L", "I", "D">>)

RGHT == B(<<"R", "G", "H", "T">>)

\* all_zeroes = (0).to_bytes(16)
all_zeroes == BytesValue(Zeros(16))

\* (mutant of IsEffect) the prefix is compared case-sensitively
IsEffectCaseSensitive(section) == StartsWith(section.name, B(<<"e", "f", "f">>))

\* section.lower().startswith("eff")
IsEffect(section) == StartsWith(Lower(section.name), B(<<"e", "f", "f">>))

\* config.getint(section, "id") in VALID_EFFECT_IDS
HasValidId(config, section) == IntOf(IdText(config, section)) \in VALID_EFFECT_IDS

\* the exception config.getint(section, "id") raises, "" if none
GetIntError(config, section) ==
    IF ~HasId(config, section) THEN "NoOptionError"
    ELSE IF ~IsIntLiteral(IdText(config, section)) THEN "ValueError: invalid literal for int()"
    ELSE ""

RECURSIVE FilterSections(_, _, _)
\* the "for section in config.sections()" loop of step 3: kept collects the
\* sections that stay, in order
FilterSections(config, todo, kept) ==
    IF todo = <<>> THEN [ok |-> TRUE, err |-> "", sections |-> kept]
    ELSE LET section == Head(todo)
         IN  IF ~IsEffect(section)
             THEN FilterSections(config, Tail(todo), Append(kept, section))
             ELSE IF GetIntError(config, section) # ""
             THEN Fail(GetIntError(config, section))
             ELSE IF HasValidId(config, section)
             THEN FilterSections(config, Tail(todo), Append(kept, section))
             ELSE FilterSections(config, Tail(todo), kept)

\* subfile.data = config_io.read().encode("cp1252"); subfile.length = len(subfile.data)
WriteBack(subfile, data) ==
    [ok |-> TRUE, err |-> "",
     subfile |-> [subfile EXCEPT !.data = data, !.length = Len(data)]]

RewriteFiltered(subfile, config, f) ==
    IF ~f.ok THEN Fail(f.err)
    ELSE WriteBack(subfile, config_write([config EXCEPT !.sections = f.sections]))

RewriteParsed(subfile, rd) ==
    IF ~rd.ok THEN Fail(rd.err)
    ELSE RewriteFiltered(subfile, rd.config,
                         FilterSections(rd.config, rd.config.sections, <<>>))

\* the body of the step 3 loop for one SONG subfile
RewriteSong(subfile) ==
    IF ~Cp1252Decodable(subfile.data) THEN Fail("UnicodeDecodeError")
    ELSE RewriteParsed(subfile, read_string(subfile.data))

RECURSIVE RemoveInvalidEffects(_, _)
RECURSIVE AfterRewrite(_, _, _)
\* step 3 from subfile i on: the object is changed in place, so a failure
\* leaves the subfiles before i rewritten
RemoveInvalidEffects(k, i) ==
    IF i > Len(k.subfiles) THEN [ok |-> TRUE, err |-> "", origin |-> "", kfn |-> k]
    ELSE IF k.subfiles[i].ftype # "SONG" THEN RemoveInvalidEffects(k, i + 1)
    ELSE AfterRewrite(k, i, RewriteSong(k.subfiles[i]))

AfterRewrite(k, i, r) ==
    IF ~r.ok THEN [ok |-> FALSE, err |-> r.err, origin |-> "config", kfn |-> k]
    ELSE RemoveInvalidEffects([k EXCEPT !.subfiles[i] = r.subfile], i + 1)

\* (mutant of ChangeRights) the entry is written without the membership test
ChangeRightsAlways(k) == [k EXCEPT !.headers = DictSet(@, RGHT, IntValue(0))]

\* step 2
ChangeRights(k) ==
    IF DictHas(k.headers, RGHT)
    THEN [k EXCEPT !.headers = DictSet(@, RGHT, IntValue(0))]
    ELSE k

\* step 1 once the decryptor exists
ReverseEncryption(k, key) ==
    [headers |-> DictSet(k.headers, FLID, all_zeroes),
     subfiles |-> DecryptSubfiles(key, <<>>, k.subfiles)]

\* the exception Cipher(algorithms.AES128(key), modes.ECB()) raises, "" if none
CipherError(key) ==
    IF key.kind = "int" THEN "TypeError: key must be bytes"
    ELSE IF Len(key.bval) # 16 THEN "ValueError: invalid key size"
    ELSE ""

\* unlock_kfn once kfn.headers["FLID"] is known
UnlockWithKey(k, flid) ==
    IF flid # all_zeroes /\ CipherError(flid) # ""
    THEN [ok |-> FALSE, err |-> CipherError(flid), origin |-> "cipher", kfn |-> k]
    ELSE RemoveInvalidEffects(
            ChangeRights(IF flid = all_zeroes THEN k ELSE ReverseEncryption(k, flid.bval)),
            1)

unlock_kfn(k) ==
    IF ~DictHas(k.headers, FLID)
    THEN [ok |-> FALSE, err |-> "KeyError: 'FLID'", origin |-> "headers", kfn |-> k]
    ELSE UnlockWithKey(k, DictGet(k.headers, FLID))

----------------------------------------------------------------------------
(* The inputs: header tables, documents, subfiles and streams *)

Line(t) == B(t) \o <<10>>

Key1 == [i \in 1..16 |-> (7 * i + 3) % 256]

\* pad a plaintext with filler up to a whole number of blocks, then encrypt
Encrypted(key, plain) ==
    EncryptBlocks(key,
        plain \o [i \in 1..((BlockSize - (Len(plain) % BlockSize)) % BlockSize) |-> 32])

\* [Eff1] id=1 (kept), [EFF2] ID : 999 (removed), [Verse] without id (kept)
DocMixed ==
    Line(<<"[", "E", "f", "f", "1", "]">>) \o Line(<<"i", "d", "=", "1">>)
        \o Line(<<"[", "E", "F", "F", "2", "]", "CR">>)
        \o Line(<<"I", "D", " ", ":", " ", "9", "9", "9">>)
        \o Line(<<"[", "V", "e", "r", "s", "e", "]">>)
        \o Line(<<"t", "e", "x", "t", "=", "l", "a">>)
        \o Line(<<"TAB", "l", "a">>)

\* a comment, defaults that give [eff3] the id 7 (removed), [General] (kept)
DocDefaults ==
    Line(<<"#", " ", "s", "o", "n", "g">>)
        \o Line(<<"[", "G", "e", "n", "e", "r", "a", "l", "]">>)
        \o Line(<<"T", "i", "t", "l", "e", "=", "l", "a">>) \o Line(<<>>)
        \o Line(<<"[", "D", "E", "F", "A", "U", "L", "T", "]">>)
        \o Line(<<"i", "d", "=", "7">>)
        \o Line(<<"[", "e", "f", "f", "3", "]">>)
        \o Line(<<"x", "=", "1">>)

\* an effect section without id: getint raises NoOptionError
DocNoId ==
    Line(<<"[", "E", "f", "f", "9", "]">>) \o Line(<<"n", "a", "m", "e", "=", "x">>)

SongPlain ==
    KFNSubfile(B(<<"s", "o", "n", "g", ".", "i", "n", "i">>), "SONG", DocMixed,
               Len(DocMixed), FALSE)

SongEncrypted ==
    KFNSubfile(B(<<"s", "2", ".", "i", "n", "i">>), "SONG", Encrypted(Key1, DocDefaults),
               Len(DocDefaults), TRUE)

SongNoId ==
    KFNSubfile(B(<<"b", "a", "d", ".", "i", "n", "i">>), "SONG", DocNoId, Len(DocNoId), FALSE)

\* 32 bytes of ciphertext for 20 bytes of plaintext
AudioEncrypted ==
    KFNSubfile(B(<<"a", ".", "m", "p", "3">>), "AUDIO",
               Encrypted(Key1, [i \in 1..20 |-> 100 + i]), 20, TRUE)

\* an encrypted payload that is not a whole number of blocks
AudioOdd ==
    KFNSubfile(B(<<"b", ".", "m", "p", "3">>), "AUDIO", [i \in 1..17 |-> 200 + i], 17, TRUE)

ImagePlain ==
    KFNSubfile(B(<<"i", ".", "p", "n", "g">>), "IMAGE", <<1, 2, 3>>, 3, FALSE)

\* another subfile under the name of ImagePlain
ImageSameName ==
    KFNSubfile(B(<<"i", ".", "p", "n", "g">>), "IMAGE", <<9, 8>>, 2, FALSE)

SubfileInputs ==
    {SongPlain, SongEncrypted, SongNoId, AudioEncrypted, AudioOdd, ImagePlain,
     ImageSameName}

HeaderInputs ==
    { <<HeaderEntry(FLID, BytesValue(Key1)), HeaderEntry(RGHT, IntValue(1))>>,
      <<HeaderEntry(RGHT, IntValue(1)), HeaderEntry(FLID, all_zeroes)>>,
      <<HeaderEntry(B(<<"Y", "E", "A", "R">>), IntValue(1999)),
        HeaderEntry(FLID, BytesValue(Key1))>>,
      <<HeaderEntry(B(<<"T", "I", "T", "L">>), BytesValue(B(<<"l", "a">>))),
        HeaderEntry(RGHT, IntValue(0))>>,
      <<HeaderEntry(FLID, IntValue(5))>> }

SubfileLists ==
    UNION { [1..n -> SubfileInputs] : n \in 0..MaxSubfiles }

Containers == { KFNFile(h, sl) : h \in HeaderInputs, sl \in SubfileLists }

EmptyContainer == KFNFile(<<>>, <<>>)

\* streams no write_kfn produced: a wrong signature, a stream cut inside the
\* index, an unknown header flag, an unknown subfile type
StreamInputs ==
    { B(<<"K", "F", "N", "X">>) \o EndhHeader \o write_word_le(0),
      SubSeq(write_kfn(KFNFile(<<>>, <<ImagePlain>>)), 1, 20),
      B(<<"K", "F", "N", "B">>) \o RGHT \o <<3, 0, 0, 0, 0>> \o EndhHeader
          \o write_word_le(0),
      B(<<"K", "F", "N", "B">>) \o EndhHeader \o write_word_le(1)
          \o write_word_le(1) \o <<97>> \o write_word_le(9) \o write_word_le(0)
          \o write_word_le(0) \o write_word_le(0) \o write_word_le(0) }

----------------------------------------------------------------------------
(* The codec operations applied to one KFNFile object and one stream *)

NoFile == [exists |-> FALSE, data |-> <<>>]

File(data) == [exists |-> TRUE, data |-> data]

Paths == [base : {"song"}, unlocked : 0..MaxUnlocked]

NoPath == [base |-> "", unlocked |-> 0]

NoRun == [in_path |-> NoPath, out_path |-> NoPath, fs_before |-> <<>>, ops |-> <<>>]

AppIdle ==
    /\ fs = [p \in Paths |-> NoFile]
    /\ input_entry = NoPath
    /\ output_entry = NoPath
    /\ status_label = ""
    /\ run = NoRun

Init ==
    /\ \/ kfn \in Containers /\ stream = <<>>
       \/ kfn = EmptyContainer /\ stream \in StreamInputs
    /\ last = [op |-> "init", ok |-> TRUE, err |-> "", origin |-> "",
               before |-> kfn, before_src |-> "init", src |-> "init"]
    /\ AppIdle

\* write_kfn(kfn, stream) on a fresh stream
Write ==
    /\ stream' = write_kfn(kfn)
    /\ last' = [op |-> "write", ok |-> TRUE, err |-> "", origin |-> "",
                before |-> kfn, before_src |-> last.src, src |-> last.src]
    /\ UNCHANGED <<kfn, appVars>>

ReadDone(r) ==
    /\ kfn' = IF r.ok THEN r.kfn ELSE kfn
    /\ last' = [op |-> "read", ok |-> r.ok, err |-> r.err, origin |-> "",
                before |-> kfn, before_src |-> last.src,
                src |-> IF r.ok THEN "read" ELSE last.src]
    /\ UNCHANGED <<stream, appVars>>

\* kfn = read_kfn(stream)
Read == ReadDone(read_kfn(stream))

UnlockDone(r) ==
    /\ kfn' = r.kfn
    /\ last' = [op |-> "unlock", ok |-> r.ok, err |-> r.err, origin |-> r.origin,
                before |-> kfn, before_src |-> last.src,
                src |-> IF r.ok THEN "unlocked" ELSE "broken"]
    /\ UNCHANGED <<stream, appVars>>

\* kfn = unlock_kfn(kfn); the object is changed in place, also when it raises
Unlock == UnlockDone(unlock_kfn(kfn))

Next == Write \/ Read \/ Unlock

Spec == Init /\ [][Next]_vars

----------------------------------------------------------------------------
(* The window: select_file and unlock_file *)
(* A path is [base, unlocked]: the file base + unlocked * "-Unlocked" + ".kfn" *)

\* output_file = os.path.join(dir_name, f"{base_name}-Unlocked{ext}")
OutputFileFor(file_path) == [file_path EXCEPT !.unlocked = @ + 1]

\* the Browse button; the dialog returns a path, or nothing when it is cancelled
select_file ==
    \E file_path \in {p \in Paths : p.unlocked < MaxUnlocked} \cup {NoPath} :
        /\ IF file_path # NoPath
           THEN /\ input_entry' = file_path
                /\ output_entry' = OutputFileFor(file_path)
           ELSE UNCHANGED <<input_entry, output_entry>>
        /\ UNCHANGED <<fs, status_label, run, codecVars>>

Op(name, ok) == [op |-> name, ok |-> ok]

\* the try block of unlock_file on file system f: the file system it leaves, the
\* operations it performed and the text it puts in the status label
AfterUnlock(f, out_path, ul) ==
    IF ~ul.ok
    THEN [fs |-> f,
          ops |-> <<Op("open_in", TRUE), Op("read_kfn", TRUE), Op("unlock_kfn", FALSE)>>,
          status |-> "Error: unlock_kfn"]
    ELSE [fs |-> [f EXCEPT ![out_path] = File(write_kfn(ul.kfn))],
          ops |-> <<Op("open_in", TRUE), Op("read_kfn", TRUE), Op("unlock_kfn", TRUE),
                    Op("open_out", TRUE), Op("write_kfn", TRUE)>>,
          status |-> "File unlocked successfully!"]

\* (mutant of AfterRead) the destination is opened for writing before the unlock
AfterReadOpenFirst(f, out_path, rd) ==
    IF ~rd.ok
    THEN [fs |-> f, ops |-> <<Op("open_in", TRUE), Op("read_kfn", FALSE)>>,
          status |-> "Error: read_kfn"]
    ELSE AfterUnlock([f EXCEPT ![out_path] = File(<<>>)], out_path, unlock_kfn(rd.kfn))

AfterRead(f, out_path, rd) ==
    IF ~rd.ok
    THEN [fs |-> f, ops |-> <<Op("open_in", TRUE), Op("read_kfn", FALSE)>>,
          status |-> "Error: read_kfn"]
    ELSE AfterUnlock(f, out_path, unlock_kfn(rd.kfn))

TryUnlock(f, in_path, out_path) ==
    IF ~f[in_path].exists
    THEN [fs |-> f, ops |-> <<Op("open_in", FALSE)>>, status |-> "Error: FileNotFoundError"]
    ELSE AfterRead(f, out_path, read_kfn(f[in_path].data))

TryDone(r) ==
    /\ fs' = r.fs
    /\ status_label' = r.status
    /\ run' = [in_path |-> input_entry, out_path |-> output_entry,
               fs_before |-> fs, ops |-> r.ops]
    /\ UNCHANGED <<input_entry, output_entry, codecVars>>

\* the Unlock File button
unlock_file ==
    IF input_entry = NoPath \/ output_entry = NoPath
    THEN /\ status_label' = "Please select input and output files."
         /\ UNCHANGED <<fs, input_entry, output_entry, run, codecVars>>
    ELSE TryDone(TryUnlock(fs, input_entry, output_entry))

\* something that is not a container, already at the destination
OldOutput == File(<<1, 2, 3>>)

InitApp ==
    /\ kfn = EmptyContainer
    /\ stream = <<>>
    /\ last = [op |-> "init", ok |-> TRUE, err |-> "", origin |-> "",
               before |-> kfn, before_src |-> "init", src |-> "init"]
    /\ \E c \in Containers \cup {EmptyContainer}, old \in {NoFile, OldOutput} :
          \E data \in (IF c = EmptyContainer THEN StreamInputs ELSE {write_kfn(c)}) :
             fs = [p \in Paths |->
                     IF p.unlocked = 0 THEN File(data)
                     ELSE IF p.unlocked = 1 THEN old ELSE NoFile]
    /\ input_entry = NoPath
    /\ output_entry = NoPath
    /\ status_label = ""
    /\ run = NoRun

NextApp == select_file \/ unlock_file

SpecApp == InitApp /\ [][NextApp]_vars

----------------------------------------------------------------------------
(* The layout of a stream, read entry by entry without any table of names *)

RECURSIVE RawIndex(_, _, _)
\* the n index entries that start at position pos, and the position after them
RawIndex(s, pos, n) ==
    IF n = 0 THEN [entries |-> <<>>, pos |-> pos]
    ELSE LET name_length == UnpackWord(s, pos)
             at == pos + 4 + name_length
             rest == RawIndex(s, at + 20, n - 1)
         IN  [entries |-> <<[name |-> SubSeq(s, pos + 5, at),
                             type |-> UnpackWord(s, at),
                             length |-> UnpackWord(s, at + 4),
                             offset |-> UnpackWord(s, at + 8),
                             payload_length |-> UnpackWord(s, at + 12),
                             encrypted |-> UnpackWord(s, at + 16)]>> \o rest.entries,
              pos |-> rest.pos]

\* the position of the subfile count in a well-formed stream
CountPos(s) == ReadHeaders(s, 4, <<>>).pos

SubfileCount(s) == UnpackWord(s, CountPos(s))

StreamIndex(s) == RawIndex(s, CountPos(s) + 4, SubfileCount(s))

NoneEncrypted(k) == \A i \in 1..Len(k.subfiles) : ~k.subfiles[i].is_encrypted

HasKey(k) ==
    /\ DictHas(k.headers, FLID)
    /\ DictGet(k.headers, FLID) # all_zeroes
    /\ CipherError(DictGet(k.headers, FLID)) = ""

\* the payloads of k as they are once the decryption step is over
PlainData(k, i) ==
    IF HasKey(k) THEN ReverseEncryption(k, DictGet(k.headers, FLID).bval).subfiles[i].data
    ELSE k.subfiles[i].data

----------------------------------------------------------------------------
(* The claims *)

\* C1: reading the bytes write_kfn produced for a container without encrypted
\* subfiles succeeds and returns a container with the same header entries and the
\* same subfiles (name, type, length, flag, payload) in the same order.
RoundTrip ==
    (last.op = "read" /\ stream = write_kfn(last.before) /\ NoneEncrypted(last.before))
        => (last.ok /\ kfn = last.before)

\* C2: unlocking the result of a successful unlock succeeds and changes nothing:
\* headers, flags, lengths and payloads stay as the first unlock left them.
UnlockIdempotent ==
    (last.op = "unlock" /\ last.before_src = "unlocked")
        => (last.ok /\ kfn = last.before)

UnlockIdempotentWitness ==
    /\ last.op = "unlock" /\ last.before_src = "unlocked" /\ last.ok
    /\ DictHas(kfn.headers, RGHT)
    /\ \E i \in 1..Len(kfn.subfiles) :
          kfn.subfiles[i].ftype = "SONG" /\ FindFirst(kfn.subfiles[i].data, {9}) # 0

\* C3: in a pass through unlock_file the destination is opened or written only
\* after read_kfn and unlock_kfn both succeeded; when one of them fails there is
\* no operation on the destination and the destination keeps what it held.
OutputOnlyAfterSuccess ==
    LET o == run.ops
        on_output(i) == o[i].op \in {"open_out", "write_kfn"}
        failed == \E i \in 1..Len(o) : o[i].op \in {"read_kfn", "unlock_kfn"} /\ ~o[i].ok
    IN  /\ \A i \in 1..Len(o) :
              on_output(i) =>
                  /\ \E j \in 1..(i - 1) : o[j] = Op("read_kfn", TRUE)
                  /\ \E j \in 1..(i - 1) : o[j] = Op("unlock_kfn", TRUE)
        /\ failed =>
              /\ \A i \in 1..Len(o) : ~on_output(i)
              /\ fs[run.out_path] = run.fs_before[run.out_path]

OutputOnlyAfterSuccessWitness ==
    /\ run # NoRun
    /\ run.ops[Len(run.ops)] = Op("unlock_kfn", FALSE)
    /\ run.fs_before[run.out_path] = OldOutput
    /\ fs[run.out_path] = OldOutput

\* C4: with a FLID that is not all-zero, after unlock_kfn every subfile whose flag
\* was set holds the ECB decryption of its own payload under that key cut to its
\* declared length (for a SONG subfile: that plaintext as the effect filter
\* rewrites it), its flag is cleared, the other subfiles are not decrypted and
\* FLID is 16 zero bytes.
DecryptsEachSubfile ==
    (last.op = "unlock" /\ last.ok /\ HasKey(last.before)) =>
        /\ DictGet(kfn.headers, FLID) = all_zeroes
        /\ \A i \in 1..Len(kfn.subfiles) :
              LET b == last.before.subfiles[i]
                  key == DictGet(last.before.headers, FLID).bval
                  plain == IF b.is_encrypted
                           THEN Slice(DecryptBlocks(key, b.data), 0, b.length)
                           ELSE b.data
              IN  /\ ~kfn.subfiles[i].is_encrypted
                  /\ kfn.subfiles[i].data =
                        IF b.ftype = "SONG"
                        THEN RewriteSong([b EXCEPT !.data = plain]).subfile.data
                        ELSE plain

HeaderFrame ==
    last.op = "unlock" =>
        LET b == last.before.headers
            a == kfn.headers
        IN  /\ Len(a) = Len(b)
            /\ \A i \in 1..Len(b) :
                  /\ a[i].tag = b[i].tag
                  /\ a[i].value # b[i].value =>
                        \/ a[i].tag = FLID /\ a[i].value = all_zeroes
                        \/ a[i].tag = RGHT /\ a[i].value = IntValue(0)
            /\ (last.ok /\ DictHas(b, RGHT)) => DictGet(a, RGHT) = IntValue(0)

HeaderFrameWitness ==
    /\ last.op = "unlock" /\ last.ok
    /\ ~DictHas(last.before.headers, RGHT)
    /\ HasKey(last.before)
    /\ Len(kfn.headers) = 2

\* C7: on a container read_kfn returned, unlock_kfn returns or fails in the
\* decryption or in the rewriting of a SONG subfile, never in its own handling
\* of the headers.
UnlockFailsOnlyInStages ==
    (last.op = "unlock" /\ last.before_src = "read")
        => (last.ok \/ last.origin \in {"cipher", "config"})

\* C8: with a FLID that is not all-zero and an encrypted subfile whose payload is
\* not a multiple of 16 bytes long, unlock_kfn fails.
UnalignedCiphertextFails ==
    (/\ last.op = "unlock"
     /\ HasKey(last.before)
     /\ \E i \in 1..Len(last.before.subfiles) :
           /\ last.before.subfiles[i].is_encrypted
           /\ Len(last.before.subfiles[i].data) % BlockSize # 0)
        => ~last.ok

\* C9: in the bytes write_kfn writes, the first offset is 0, each later offset is
\* the previous offset plus the previous payload's length, each payload length
\* is the length of the subfile's buffer, and the body is the payloads one after
\* the other, so that entry i's range of the body is subfile i's payload.
OffsetsContiguous ==
    last.op = "write" =>
        LET x == StreamIndex(stream)
            e == x.entries
            d(i) == kfn.subfiles[i].data
        IN  /\ Len(e) = Len(kfn.subfiles)
            /\ \A i \in 1..Len(e) :
                  /\ e[i].offset = IF i = 1 THEN 0 ELSE e[i - 1].offset + Len(d(i - 1))
                  /\ e[i].payload_length = Len(d(i))
                  /\ SubSeq(stream, x.pos + e[i].offset + 1,
                            x.pos + e[i].offset + e[i].payload_length) = d(i)
            /\ Len(stream) =
                  x.pos + (IF e = <<>> THEN 0
                           ELSE e[Len(e)].offset + e[Len(e)].payload_length)

OffsetsContiguousWitness ==
    /\ last.op = "write"
    /\ Len(kfn.subfiles) >= 2
    /\ Len(kfn.subfiles[1].data) # kfn.subfiles[1].length
    /\ Len(kfn.subfiles[2].data) > 0

\* C10: read_kfn returns as many subfiles as the stream's subfile count says, the
\* i-th with the name, metadata and payload range of the i-th index entry, or it
\* fails; two index entries of the same name make it fail.
ReadKeepsEveryEntry ==
    (last.op = "read" /\ last.ok) =>
        LET x == StreamIndex(stream)
            e == x.entries
        IN  /\ Len(kfn.subfiles) = SubfileCount(stream)
            /\ \A i \in 1..Len(kfn.subfiles) :
                  /\ kfn.subfiles[i].name = e[i].name
                  /\ kfn.subfiles[i].length = e[i].length
                  /\ kfn.subfiles[i].data =
                        Slice(stream, x.pos + e[i].offset,
                              x.pos + e[i].offset + e[i].payload_length)
            /\ \A i, j \in 1..Len(e) : e[i].name = e[j].name => i = j

====
